---- MODULE Spec2Model ----
(***************************************************************************)
(* A model of rustic, a wrapper that turns a declarative configuration     *)
(* into invocations of the restic command line.                            *)
(*                                                                         *)
(* Option<T> values are sequences of length at most one, HashMaps are      *)
(* functions over a finite set of keys, Vec<T> values are sequences, and   *)
(* anyhow errors are named after the message the code bails with.          *)
(***************************************************************************)
EXTENDS Naturals, Sequences, FiniteSets, TLC

VARIABLES config, envfile, repo, restic, last, initDone

vars == <<config, envfile, repo, restic, last, initDone>>

-----------------------------------------------------------------------------
(* Bounds of the model *)

\* Depth of nested write_fileset calls the stack of the process can hold.
MaxStack == 4

\* Longest inherits list of a fileset drawn by the fileset specification.
MaxInherits == 2

-----------------------------------------------------------------------------
(* Option, Result and HashMap *)

None == <<>>

Some(v) == <<v>>

IsSome(o) == o # <<>>

Unwrap(o) == o[1]

EmptyMap == [k \in {} |-> ""]

\* HashMap::insert: the key is added, or its value replaced.
Insert(m, k, v) == [x \in DOMAIN m \cup {k} |-> IF x = k THEN v ELSE m[x]]

\* for (var, value) in src { env.insert(var, value) }: the keys of a map are
\* distinct, so the order of the iteration does not show in the result.
InsertAll(env, src) ==
    [x \in DOMAIN env \cup DOMAIN src |-> IF x \in DOMAIN src THEN src[x] ELSE env[x]]

\* All maps from a subset of keys to vals.
Maps(keys, vals) == UNION {[d -> vals] : d \in SUBSET keys}

\* All sequences over S of length at most n.
SeqsUpTo(S, n) == UNION {[1..k -> S] : k \in 0..n}

-----------------------------------------------------------------------------
(* src/src/config.rs *)

default_restic_command == "restic"

Fileset(inherits, patterns) == [inherits |-> inherits, patterns |-> patterns]

FilesetDefault == Fileset(<<>>, <<>>)

RetentionPolicy(last_, hourly, daily, weekly, monthly, yearly, within, tags) ==
    [keep_last |-> last_, keep_hourly |-> hourly, keep_daily |-> daily,
     keep_weekly |-> weekly, keep_monthly |-> monthly, keep_yearly |-> yearly,
     keep_within |-> within, keep_tags |-> tags]

RetentionDefault == RetentionPolicy(None, None, None, None, None, None, None, <<>>)

is_empty_no_tags(policy) ==
    /\ policy.keep_last = None
    /\ policy.keep_hourly = None
    /\ policy.keep_daily = None
    /\ policy.keep_weekly = None
    /\ policy.keep_monthly = None
    /\ policy.keep_yearly = None
    /\ policy.keep_within = None

is_empty(policy) ==
    /\ policy.keep_last = None
    /\ policy.keep_hourly = None
    /\ policy.keep_daily = None
    /\ policy.keep_weekly = None
    /\ policy.keep_monthly = None
    /\ policy.keep_yearly = None
    /\ policy.keep_within = None
    /\ policy.keep_tags = <<>>

\* The profile of the test fixture; the specifications vary its fields.
FixtureProfile ==
    [repository |-> "local:/repository",
     auto_init |-> FALSE,
     base_directory |-> "/content",
     password |-> Some("test-password"),
     password_file |-> None,
     password_command |-> None,
     environment |-> EmptyMap,
     environment_file |-> None,
     include |-> FilesetDefault,
     exclude |-> FilesetDefault,
     exclude_caches |-> FALSE,
     one_file_system |-> FALSE,
     ignore_inode |-> FALSE,
     retention |-> RetentionDefault]

Configuration(profile, filesets) ==
    [profiles |-> [n \in {"test"} |-> profile],
     filesets |-> filesets,
     restic_command |-> default_restic_command]

NoFilesets == [n \in {} |-> FilesetDefault]

-----------------------------------------------------------------------------
(* Results *)

Ok(v) == [ok |-> TRUE, err |-> "", val |-> v]

Err(e) == [ok |-> FALSE, err |-> e, val |-> <<>>]

-----------------------------------------------------------------------------
(* src/src/restic.rs: the command template *)

\* The environment file as the file system holds it: fs::read_to_string fails
\* ("unreadable"), toml::from_str fails ("malformed"), or a table is read.
EnvFile(status, vars_) == [status |-> status, vars |-> vars_]

add_password_first_wins(profile, args, env) ==
    IF IsSome(profile.password)
    THEN Ok([args |-> args,
             env |-> Insert(env, "RESTIC_PASSWORD", Unwrap(profile.password))])
    ELSE IF IsSome(profile.password_file)
    THEN Ok([args |-> args \o <<"--password-file", Unwrap(profile.password_file)>>,
             env |-> env])
    ELSE IF IsSome(profile.password_command)
    THEN Ok([args |-> args \o <<"--password-command", Unwrap(profile.password_command)>>,
             env |-> env])
    ELSE Err("MissingPasswordSource")

add_password_file_in_env(profile, args, env) ==
    IF IsSome(profile.password)
    THEN IF IsSome(profile.password_file)
         THEN Err("ConflictingPasswordSource")
         ELSE IF IsSome(profile.password_command)
         THEN Err("ConflictingPasswordSource")
         ELSE Ok([args |-> args,
                  env |-> Insert(env, "RESTIC_PASSWORD", Unwrap(profile.password))])
    ELSE IF IsSome(profile.password_file)
    THEN IF IsSome(profile.password_command)
         THEN Err("ConflictingPasswordSource")
         ELSE Ok([args |-> args,
                  env |-> Insert(env, "RESTIC_PASSWORD_FILE", Unwrap(profile.password_file))])
    ELSE IF IsSome(profile.password_command)
    THEN Ok([args |-> args,
             env |-> Insert(env, "RESTIC_PASSWORD_COMMAND", Unwrap(profile.password_command))])
    ELSE Err("MissingPasswordSource")

add_password(profile, args, env) ==
    IF IsSome(profile.password)
    THEN IF IsSome(profile.password_file)
         THEN Err("ConflictingPasswordSource")
         ELSE IF IsSome(profile.password_command)
         THEN Err("ConflictingPasswordSource")
         ELSE Ok([args |-> args,
                  env |-> Insert(env, "RESTIC_PASSWORD", Unwrap(profile.password))])
    ELSE IF IsSome(profile.password_file)
    THEN IF IsSome(profile.password_command)
         THEN Err("ConflictingPasswordSource")
         ELSE Ok([args |-> args \o <<"--password-file", Unwrap(profile.password_file)>>,
                  env |-> env])
    ELSE IF IsSome(profile.password_command)
    THEN Ok([args |-> args \o <<"--password-command", Unwrap(profile.password_command)>>,
             env |-> env])
    ELSE Err("MissingPasswordSource")

add_credentials_inline_wins(profile, env, file) ==
    LET env1 == InsertAll(env, profile.environment)
    IN  IF IsSome(profile.environment_file)
        THEN IF file.status = "unreadable" THEN Err("EnvironmentFileUnreadable")
             ELSE IF file.status = "malformed" THEN Err("EnvironmentFileMalformed")
             ELSE Ok(InsertAll(InsertAll(env, file.vars), profile.environment))
        ELSE Ok(env1)

add_credentials(profile, env, file) ==
    LET env1 == InsertAll(env, profile.environment)
    IN  IF IsSome(profile.environment_file)
        THEN IF file.status = "unreadable" THEN Err("EnvironmentFileUnreadable")
             ELSE IF file.status = "malformed" THEN Err("EnvironmentFileMalformed")
             ELSE Ok(InsertAll(env1, file.vars))
        ELSE Ok(env1)

for_profile_ignores_environment(cfg, profile_name, file) ==
    IF profile_name \notin DOMAIN cfg.profiles
    THEN Err("UnknownProfile")
    ELSE LET profile == cfg.profiles[profile_name]
             pw == add_password(profile, <<>>, EmptyMap)
         IN  IF ~pw.ok THEN Err(pw.err)
             ELSE LET cr == add_credentials(profile, pw.val.env, file)
                  IN  Ok([profile |-> profile_name,
                          shared_args |-> pw.val.args \o <<"--repo", profile.repository>>,
                          shared_env |-> IF cr.ok THEN cr.val ELSE pw.val.env])

for_profile(cfg, profile_name, file) ==
    IF profile_name \notin DOMAIN cfg.profiles
    THEN Err("UnknownProfile")
    ELSE LET profile == cfg.profiles[profile_name]
             pw == add_password(profile, <<>>, EmptyMap)
         IN  IF ~pw.ok THEN Err(pw.err)
             ELSE LET cr == add_credentials(profile, pw.val.env, file)
                  IN  IF ~cr.ok THEN Err(cr.err)
                      ELSE Ok([profile |-> profile_name,
                               shared_args |-> pw.val.args \o <<"--repo", profile.repository>>,
                               shared_env |-> cr.val])

new_command_without_args(r, cfg) ==
    [program |-> cfg.restic_command,
     current_dir |-> cfg.profiles[r.profile].base_directory,
     args |-> <<"--repo", cfg.profiles[r.profile].repository>>,
     env |-> r.shared_env,
     stdio |-> "inherit"]

\* new_command: the template is copied into a fresh Command, it is never changed.
new_command(r, cfg) ==
    [program |-> cfg.restic_command,
     current_dir |-> cfg.profiles[r.profile].base_directory,
     args |-> r.shared_args,
     env |-> r.shared_env,
     stdio |-> "inherit"]

arg(cmd, a) == [cmd EXCEPT !.args = @ \o <<a>>]

\* Command::status as the process spawner answers it: the process exits with
\* "success" or "failure", or it cannot be run at all ("could_not_run").
ExitStatuses == {"success", "failure"}

Outcomes == ExitStatuses \cup {"could_not_run"}

Process(cmd, outcome) == [cmd |-> cmd, exit |-> outcome]

\* What an operation hands back: its result, the commands it ran status() on, in
\* order, and the include and exclude files as they are when it returns.
Return(res, spawned, include_file, exclude_file) ==
    [res |-> res, spawned |-> spawned,
     include_file |-> include_file, exclude_file |-> exclude_file]

repository_exists_propagates(r, cfg, outcome) ==
    LET cmd == [arg(arg(arg(new_command(r, cfg), "snapshots"), "--compact"), "--last")
                    EXCEPT !.stdio = "null"]
        ran == <<Process(cmd, outcome)>>
    IN  IF outcome = "could_not_run" THEN Return(Err("CouldNotRun"), ran, None, None)
        ELSE IF outcome = "success" THEN Return(Ok(TRUE), ran, None, None)
        ELSE Return(Err("SnapshotsFailed"), ran, None, None)

repository_exists(r, cfg, outcome) ==
    LET cmd == [arg(arg(arg(new_command(r, cfg), "snapshots"), "--compact"), "--last")
                    EXCEPT !.stdio = "null"]
        ran == <<Process(cmd, outcome)>>
    IN  IF outcome = "could_not_run" THEN Return(Err("CouldNotRun"), ran, None, None)
        ELSE IF outcome = "success" THEN Return(Ok(TRUE), ran, None, None)
        ELSE Return(Ok(FALSE), ran, None, None)

-----------------------------------------------------------------------------
(* src/src/backup.rs *)

RECURSIVE write_fileset(_, _, _, _)
RECURSIVE write_inherited(_, _, _, _, _)

\* The loop over fileset.inherits from its i-th name on; the first error ends it.
write_inherited(out, inherits, i, named_filesets, depth) ==
    IF i > Len(inherits) THEN [ok |-> TRUE, err |-> "", out |-> out]
    ELSE IF inherits[i] \notin DOMAIN named_filesets
    THEN [ok |-> FALSE, err |-> "UnknownFileset", out |-> out]
    ELSE LET r == write_fileset(out, named_filesets[inherits[i]], named_filesets, depth + 1)
         IN  IF r.ok THEN write_inherited(r.out, inherits, i + 1, named_filesets, depth)
             ELSE r

\* write_fileset with the patterns of a fileset written after those it inherits.
write_fileset_post_order(out, fileset, named_filesets, depth) ==
    IF depth > MaxStack THEN [ok |-> FALSE, err |-> "StackOverflow", out |-> out]
    ELSE LET r == write_inherited(out, fileset.inherits, 1, named_filesets, depth)
         IN  IF r.ok THEN [r EXCEPT !.out = @ \o fileset.patterns] ELSE r

\* out is the stream as a sequence of lines. The code keeps no set of visited
\* names: a call nested deeper than the stack holds ends the process, which is
\* reported here as "StackOverflow".
write_fileset(out, fileset, named_filesets, depth) ==
    IF depth > MaxStack THEN [ok |-> FALSE, err |-> "StackOverflow", out |-> out]
    ELSE write_inherited(out \o fileset.patterns, fileset.inherits, 1,
                         named_filesets, depth)

init(r, cfg, outcome) ==
    LET cmd == arg(new_command(r, cfg), "init")
        ran == <<Process(cmd, outcome)>>
    IN  IF outcome = "could_not_run" THEN Return(Err("CouldNotRun"), ran, None, None)
        ELSE IF outcome = "success" THEN Return(Ok(<<>>), ran, None, None)
        ELSE Return(Err("InitFailed"), ran, None, None)

args_if(cmd, cond, a) == IF cond THEN arg(cmd, a) ELSE cmd

\* The part of backup after the repository check: the two pattern files, then
\* the backup command. ran holds the commands run so far. Creating the
\* temporary files and writing lines to them is taken to succeed; the paths of
\* the files are the tokens "include_file" and "exclude_file".
backup_files(r, cfg, ran, outcome) ==
    LET profile == cfg.profiles[r.profile]
        inc == write_fileset(<<>>, profile.include, cfg.filesets, 1)
    IN  IF ~inc.ok THEN Return(Err(inc.err), ran, Some(inc.out), None)
        ELSE LET exc == write_fileset(<<>>, profile.exclude, cfg.filesets, 1)
             IN  IF ~exc.ok THEN Return(Err(exc.err), ran, Some(inc.out), Some(exc.out))
                 ELSE LET c0 == arg(arg(arg(arg(arg(new_command(r, cfg), "backup"),
                                     "--files-from"), "include_file"),
                                     "--exclude-file"), "exclude_file")
                          c1 == args_if(c0, profile.exclude_caches, "--exclude-caches")
                          c2 == args_if(c1, profile.one_file_system, "--one-file-system")
                          cmd == args_if(c2, profile.ignore_inode, "--ignore-inode")
                          all == ran \o <<Process(cmd, outcome)>>
                          res == IF outcome = "could_not_run" THEN Err("CouldNotRun")
                                 ELSE IF outcome = "success" THEN Ok(<<>>)
                                 ELSE Err("BackupFailed")
                      IN  Return(res, all, Some(inc.out), Some(exc.out))

\* o.probe, o.init and o.backup are the outcomes of the three commands backup
\* may run.
backup_no_check(r, cfg, o) ==
    LET probe == repository_exists(r, cfg, o.probe)
    IN  IF ~probe.res.ok THEN probe
        ELSE IF ~probe.res.val /\ cfg.profiles[r.profile].auto_init
        THEN LET i == init(r, cfg, o.init)
             IN  backup_files(r, cfg, probe.spawned \o i.spawned, o.backup)
        ELSE backup_files(r, cfg, probe.spawned, o.backup)

backup_ignores_init_failure(r, cfg, o) ==
    LET probe == repository_exists(r, cfg, o.probe)
    IN  IF ~probe.res.ok THEN probe
        ELSE IF ~probe.res.val
        THEN IF cfg.profiles[r.profile].auto_init
             THEN LET i == init(r, cfg, o.init)
                  IN  backup_files(r, cfg, probe.spawned \o i.spawned, o.backup)
             ELSE Return(Err("RepositoryNotInitialized"), probe.spawned, None, None)
        ELSE backup_files(r, cfg, probe.spawned, o.backup)

backup(r, cfg, o) ==
    LET probe == repository_exists(r, cfg, o.probe)
    IN  IF ~probe.res.ok THEN probe
        ELSE IF ~probe.res.val
        THEN IF cfg.profiles[r.profile].auto_init
             THEN LET i == init(r, cfg, o.init)
                  IN  IF ~i.res.ok
                      THEN Return(i.res, probe.spawned \o i.spawned, None, None)
                      ELSE backup_files(r, cfg, probe.spawned \o i.spawned, o.backup)
             ELSE Return(Err("RepositoryNotInitialized"), probe.spawned, None, None)
        ELSE backup_files(r, cfg, probe.spawned, o.backup)

-----------------------------------------------------------------------------
(* src/src/forget.rs *)

RECURSIVE join(_, _)

\* itertools::join
join(strings, sep) ==
    IF strings = <<>> THEN ""
    ELSE IF Len(strings) = 1 THEN strings[1]
    ELSE strings[1] \o sep \o join(Tail(strings), sep)

\* if let Some(n) = field { cmd.arg(flag).arg(n.to_string()) }
arg_count(cmd, flag, field) ==
    IF IsSome(field) THEN arg(arg(cmd, flag), ToString(Unwrap(field))) ELSE cmd

RECURSIVE arg_tags(_, _)

arg_tags(cmd, keep_tags) ==
    IF keep_tags = <<>> THEN cmd
    ELSE arg_tags(arg(arg(cmd, "--keep-tag"), join(Head(keep_tags), ",")), Tail(keep_tags))

add_policy_monthly_after_yearly(policy, cmd) ==
    LET c1 == arg_count(cmd, "--keep-last", policy.keep_last)
        c2 == arg_count(c1, "--keep-hourly", policy.keep_hourly)
        c3 == arg_count(c2, "--keep-daily", policy.keep_daily)
        c4 == arg_count(c3, "--keep-weekly", policy.keep_weekly)
        c5 == arg_count(c4, "--keep-yearly", policy.keep_yearly)
        c6 == arg_count(c5, "--keep-monthly", policy.keep_monthly)
        c7 == IF IsSome(policy.keep_within)
              THEN arg(arg(c6, "--keep-within"), Unwrap(policy.keep_within))
              ELSE c6
    IN  arg_tags(c7, policy.keep_tags)

add_policy(policy, cmd) ==
    LET c1 == arg_count(cmd, "--keep-last", policy.keep_last)
        c2 == arg_count(c1, "--keep-hourly", policy.keep_hourly)
        c3 == arg_count(c2, "--keep-daily", policy.keep_daily)
        c4 == arg_count(c3, "--keep-weekly", policy.keep_weekly)
        c5 == arg_count(c4, "--keep-monthly", policy.keep_monthly)
        c6 == arg_count(c5, "--keep-yearly", policy.keep_yearly)
        c7 == IF IsSome(policy.keep_within)
              THEN arg(arg(c6, "--keep-within"), Unwrap(policy.keep_within))
              ELSE c6
    IN  arg_tags(c7, policy.keep_tags)

forget(r, cfg, prune_, outcome) ==
    LET policy == cfg.profiles[r.profile].retention
    IN  IF is_empty(policy) THEN Return(Ok(<<>>), <<>>, None, None)
        ELSE LET c0 == add_policy(policy, arg(new_command(r, cfg), "forget"))
                 cmd == args_if(c0, prune_, "--prune")
                 ran == <<Process(cmd, outcome)>>
             IN  IF outcome = "could_not_run" THEN Return(Err("CouldNotRun"), ran, None, None)
                 ELSE IF outcome = "success" THEN Return(Ok(<<>>), ran, None, None)
                 ELSE Return(Err("ForgetFailed"), ran, None, None)

prune(r, cfg, outcome) ==
    LET cmd == arg(new_command(r, cfg), "prune")
        ran == <<Process(cmd, outcome)>>
    IN  IF outcome = "could_not_run" THEN Return(Err("CouldNotRun"), ran, None, None)
        ELSE IF outcome = "success" THEN Return(Ok(<<>>), ran, None, None)
        ELSE Return(Err("PruneFailed"), ran, None, None)

-----------------------------------------------------------------------------
(* src/src/snapshots.rs *)

\* The exit status of the process is dropped: only a command that could not be
\* run is an error.
dump_snapshots(r, cfg, extra_args, outcome) ==
    LET c0 == arg(new_command(r, cfg), "snapshots")
        cmd == [c0 EXCEPT !.args = @ \o extra_args]
        ran == <<Process(cmd, outcome)>>
    IN  IF outcome = "could_not_run" THEN Return(Err("CouldNotRun"), ran, None, None)
        ELSE Return(Ok(<<>>), ran, None, None)

-----------------------------------------------------------------------------
(* src/src/main.rs *)

Command(name, profile, prune_, extra_args) ==
    [name |-> name, profile |-> profile, prune |-> prune_, extra_args |-> extra_args]

list_profiles(cfg) ==
    Return(Ok({<<n, cfg.profiles[n].repository>> : n \in DOMAIN cfg.profiles}),
           <<>>, None, None)

\* run, once the configuration is loaded. o.probe, o.init and o.main are the
\* outcomes of the commands the operation may run.
run(cfg, file, command, o) ==
    IF command.name = "Profiles" THEN list_profiles(cfg)
    ELSE LET t == for_profile(cfg, command.profile, file)
         IN  IF ~t.ok THEN Return(Err(t.err), <<>>, None, None)
             ELSE IF command.name = "Backup"
             THEN backup(t.val, cfg, [probe |-> o.probe, init |-> o.init, backup |-> o.main])
             ELSE IF command.name = "Forget"
             THEN forget(t.val, cfg, command.prune, o.main)
             ELSE IF command.name = "Prune"
             THEN prune(t.val, cfg, o.main)
             ELSE dump_snapshots(t.val, cfg, command.extra_args, o.main)

-----------------------------------------------------------------------------
(* The restic process, as src/src/restic.rs relies on it *)

\* `restic snapshots` succeeds on an initialized repository and fails on one
\* that is not (the doc comment of repository_exists, test_repository_exists).
snapshots_exit(repository) == IF repository THEN "success" ELSE "failure"

ProbeOutcomes(repository) == {snapshots_exit(repository), "could_not_run"}

\* The restic subcommand of a command line: the argument after --repo <url>.
Subcommand(cmd) ==
    LET i == CHOOSE j \in 1..Len(cmd.args) : cmd.args[j] = "--repo"
    IN  cmd.args[i + 2]

IsProbe(p) == Subcommand(p.cmd) = "snapshots" /\ p.cmd.stdio = "null"

IsInit(p) == Subcommand(p.cmd) = "init"

IsBackup(p) == Subcommand(p.cmd) = "backup"

\* A successful `restic init` leaves the repository initialized.
InitSucceeded(spawned) ==
    \E i \in 1..Len(spawned) : IsInit(spawned[i]) /\ spawned[i].exit = "success"

-----------------------------------------------------------------------------
(* State *)

\* config, envfile : the loaded Configuration and the environment file on disk
\* repo            : whether the repository of the profile is initialized
\* restic          : the Restic value of the latest for_profile call, if it was built
\* last            : the latest call: its inputs, result and the commands it ran
\* initDone        : whether restic init has ever succeeded on the repository

NoArg == Command("", "", FALSE, <<>>)

Call(op, a, ret) ==
    [op |-> op, arg |-> a, res |-> ret.res, spawned |-> ret.spawned,
     include_file |-> ret.include_file, exclude_file |-> ret.exclude_file]

NoCall == Call("none", NoArg, Return(Ok(<<>>), <<>>, None, None))

ProfileNames == {"test", "other"}

ExtraArgs == {<<>>, <<"--json">>}

Commands ==
    {Command("Backup", n, FALSE, <<>>) : n \in ProfileNames}
    \cup {Command("Forget", n, p, <<>>) : n \in ProfileNames, p \in BOOLEAN}
    \cup {Command("Prune", n, FALSE, <<>>) : n \in ProfileNames}
    \cup {Command("Snapshots", n, FALSE, e) : n \in ProfileNames, e \in ExtraArgs}
    \cup {Command("Profiles", "", FALSE, <<>>)}

Frame(ret) ==
    /\ repo' = (repo \/ InitSucceeded(ret.spawned))
    /\ initDone' = (initDone \/ InitSucceeded(ret.spawned))
    /\ UNCHANGED <<config, envfile>>

ForProfile(profile_name) ==
    LET t == for_profile(config, profile_name, envfile)
    IN  /\ restic' = IF t.ok THEN Some(t.val) ELSE None
        /\ last' = Call("for_profile", Command("", profile_name, FALSE, <<>>),
                        Return(t, <<>>, None, None))
        /\ UNCHANGED <<config, envfile, repo, initDone>>

RepositoryExists ==
    /\ IsSome(restic)
    /\ \E oc \in ProbeOutcomes(repo) :
          LET ret == repository_exists(Unwrap(restic), config, oc)
          IN  /\ last' = Call("repository_exists", NoArg, ret)
              /\ Frame(ret)
    /\ UNCHANGED restic

InitRepo ==
    /\ IsSome(restic)
    /\ \E oc \in Outcomes :
          LET ret == init(Unwrap(restic), config, oc)
          IN  /\ last' = Call("init", NoArg, ret)
              /\ Frame(ret)
    /\ UNCHANGED restic

Backup ==
    /\ IsSome(restic)
    /\ \E p \in ProbeOutcomes(repo), i \in Outcomes, b \in Outcomes :
          LET ret == backup(Unwrap(restic), config,
                            [probe |-> p, init |-> i, backup |-> b])
          IN  /\ last' = Call("backup", NoArg, ret)
              /\ Frame(ret)
    /\ UNCHANGED restic

Forget(prune_) ==
    /\ IsSome(restic)
    /\ \E oc \in Outcomes :
          LET ret == forget(Unwrap(restic), config, prune_, oc)
          IN  /\ last' = Call("forget", Command("", "", prune_, <<>>), ret)
              /\ Frame(ret)
    /\ UNCHANGED restic

Prune ==
    /\ IsSome(restic)
    /\ \E oc \in Outcomes :
          LET ret == prune(Unwrap(restic), config, oc)
          IN  /\ last' = Call("prune", NoArg, ret)
              /\ Frame(ret)
    /\ UNCHANGED restic

DumpSnapshots(extra_args) ==
    /\ IsSome(restic)
    /\ \E oc \in Outcomes :
          LET ret == dump_snapshots(Unwrap(restic), config, extra_args, oc)
          IN  /\ last' = Call("dump_snapshots", Command("", "", FALSE, extra_args), ret)
              /\ Frame(ret)
    /\ UNCHANGED restic

\* One run of the program: the Restic value it builds is its own.
Run(command) ==
    /\ \E p \in ProbeOutcomes(repo), i \in Outcomes, m \in Outcomes :
          LET ret == run(config, envfile, command, [probe |-> p, init |-> i, main |-> m])
          IN  /\ last' = Call("run", command, ret)
              /\ Frame(ret)
    /\ UNCHANGED restic

\* write_fileset on the include fileset of the profile and an empty stream.
ResolveFileset ==
    LET w == write_fileset(<<>>, config.profiles["test"].include, config.filesets, 1)
    IN  /\ last' = Call("write_fileset", NoArg,
                        Return(IF w.ok THEN Ok(<<>>) ELSE Err(w.err), <<>>, Some(w.out), None))
        /\ UNCHANGED <<config, envfile, repo, restic, initDone>>

-----------------------------------------------------------------------------
(* Configurations the specifications start from *)

WithPasswords(profile, pw, file, command) ==
    [profile EXCEPT !.password = pw, !.password_file = file, !.password_command = command]

\* Named filesets of the main specification: "docs" inherits "common".
MainFilesets ==
    [n \in {"docs", "common"} |->
        IF n = "docs" THEN Fileset(<<"common">>, <<"*.md">>)
        ELSE Fileset(<<>>, <<"*.txt">>)]

MainIncludes ==
    {Fileset(<<>>, <<"/home">>),
     Fileset(<<"docs">>, <<"/home">>),
     Fileset(<<"docs", "nowhere">>, <<"/home">>)}

MainRetentions ==
    {RetentionDefault, [RetentionDefault EXCEPT !.keep_last = Some(5)]}

\* Profiles that differ in what backup and forget do.
MainProfiles ==
    {[FixtureProfile EXCEPT !.auto_init = a, !.include = i, !.retention = k,
                            !.exclude_caches = f, !.ignore_inode = f] :
        a \in BOOLEAN, i \in MainIncludes, k \in MainRetentions, f \in BOOLEAN}

\* Profiles that differ in how for_profile ends.
MainCredentialProfiles ==
    {WithPasswords(FixtureProfile, None, Some("/secret"), None),
     WithPasswords(FixtureProfile, None, None, None),
     WithPasswords(FixtureProfile, Some("test-password"), None, Some("pass rustic")),
     [FixtureProfile EXCEPT !.environment_file = Some("env.toml")],
     [FixtureProfile EXCEPT !.exclude = Fileset(<<"nowhere">>, <<"*.o">>),
                            !.auto_init = TRUE, !.one_file_system = TRUE]}

MainEnvFiles ==
    {EnvFile("unreadable", EmptyMap), EnvFile("ok", [k \in {"X"} |-> "2"])}

InitWith(configs, files, repos) ==
    /\ config \in configs
    /\ envfile \in files
    /\ repo \in repos
    /\ initDone = repo
    /\ restic = None
    /\ last = NoCall

InitMain ==
    \/ InitWith({Configuration(p, MainFilesets) : p \in MainProfiles},
                {EnvFile("unreadable", EmptyMap)}, BOOLEAN)
    \/ InitWith({Configuration(p, MainFilesets) : p \in MainCredentialProfiles},
                MainEnvFiles, BOOLEAN)

Next ==
    \/ \E n \in ProfileNames : ForProfile(n)
    \/ RepositoryExists
    \/ InitRepo
    \/ Backup
    \/ \E p \in BOOLEAN : Forget(p)
    \/ Prune
    \/ \E e \in ExtraArgs : DumpSnapshots(e)
    \/ \E c \in Commands : Run(c)

Spec == InitMain /\ [][Next]_vars

-----------------------------------------------------------------------------
(* Claims checked under Spec *)

TestProfile == config.profiles["test"]

\* The latest call is backup: called on the Restic value, or by a run that
\* built one.
BackupCalled ==
    \/ last.op = "backup"
    \/ /\ last.op = "run"
       /\ last.arg.name = "Backup"
       /\ last.spawned # <<>>

\* The first command of the latest call is the existence probe, and it exited
\* with failure: the repository is reported not to exist.
ProbeReportedAbsent ==
    /\ last.spawned # <<>>
    /\ IsProbe(last.spawned[1])
    /\ last.spawned[1].exit = "failure"

Positions(P(_)) == {i \in 1..Len(last.spawned) : P(last.spawned[i])}

\* C1: a backup whose probe reports no repository fails with
\* RepositoryNotInitialized having run neither init nor backup when auto_init is
\* false; when auto_init is true it runs init, and a backup command is run only
\* after an init command, never before one and never without one.
C1_BackupInitOrder ==
    (BackupCalled /\ ProbeReportedAbsent) =>
        IF ~TestProfile.auto_init
        THEN /\ ~last.res.ok
             /\ last.res.err = "RepositoryNotInitialized"
             /\ Positions(IsInit) = {}
             /\ Positions(IsBackup) = {}
        ELSE /\ Positions(IsInit) # {}
             /\ \A b \in Positions(IsBackup) : \E i \in Positions(IsInit) : i < b
             /\ \A i \in Positions(IsInit) : \A b \in Positions(IsBackup) : i < b

C1_Witness ==
    /\ BackupCalled
    /\ ProbeReportedAbsent
    /\ TestProfile.auto_init
    /\ Positions(IsBackup) # {}

\* C8: in every operation, a command other than the existence probe that exits
\* with failure makes the operation return an error.
C8_FailurePropagates ==
    \A i \in 1..Len(last.spawned) :
        (~IsProbe(last.spawned[i]) /\ last.spawned[i].exit = "failure") => ~last.res.ok

PasswordSources(profile) ==
    Cardinality({s \in {"password", "password_file", "password_command"} : IsSome(profile[s])})

\* The error for_profile must end with for this name, "" when it must succeed.
ExpectedFailure(profile_name) ==
    IF profile_name \notin DOMAIN config.profiles THEN "UnknownProfile"
    ELSE LET profile == config.profiles[profile_name]
         IN  IF PasswordSources(profile) > 1 THEN "ConflictingPasswordSource"
             ELSE IF PasswordSources(profile) = 0 THEN "MissingPasswordSource"
             ELSE IF profile.environment_file = None THEN ""
             ELSE IF envfile.status = "unreadable" THEN "EnvironmentFileUnreadable"
             ELSE IF envfile.status = "malformed" THEN "EnvironmentFileMalformed"
             ELSE ""

\* C10: for_profile fails with UnknownProfile for a name that is no profile and
\* with the resolver's error when the password or the environment cannot be
\* resolved; a failed for_profile builds no Restic value, and a run in which it
\* fails ends with that error having run no command.
C10_FailedProfileRunsNothing ==
    /\ (last.op = "for_profile" /\ ExpectedFailure(last.arg.profile) # "") =>
          /\ ~last.res.ok
          /\ last.res.err = ExpectedFailure(last.arg.profile)
          /\ restic = None
    /\ (last.op = "run" /\ last.arg.name # "Profiles"
            /\ ExpectedFailure(last.arg.profile) # "") =>
          /\ ~last.res.ok
          /\ last.res.err = ExpectedFailure(last.arg.profile)
          /\ last.spawned = <<>>
    /\ (last.op \notin {"none", "for_profile", "run", "write_fileset"}) => IsSome(restic)

C10_Witness ==
    /\ last.op = "run"
    /\ last.arg.name = "Backup"
    /\ last.arg.profile = "test"
    /\ ~last.res.ok
    /\ last.res.err = "MissingPasswordSource"
    /\ last.spawned = <<>>

-----------------------------------------------------------------------------
(* The credential specification: for_profile on every shape of the password
   sources, the inline environment and the environment file *)

EnvKeys == {"X", "Y", "RESTIC_PASSWORD"}

EnvValues == {"1", "2"}

CredProfiles ==
    {[WithPasswords(FixtureProfile, pw, pf, pc) EXCEPT !.environment = e] :
        pw \in {None, Some("test-password")},
        pf \in {None, Some("/secret")},
        pc \in {None, Some("pass rustic")},
        e \in Maps(EnvKeys, EnvValues)}

CredEnvFiles ==
    {EnvFile("unreadable", EmptyMap), EnvFile("malformed", EmptyMap)}
    \cup {EnvFile("ok", m) : m \in Maps(EnvKeys, EnvValues)}

InitCred ==
    \/ InitWith({Configuration(p, NoFilesets) : p \in CredProfiles},
                {EnvFile("unreadable", EmptyMap)}, {FALSE})
    \/ InitWith({Configuration([p EXCEPT !.environment_file = Some("env.toml")], NoFilesets) :
                    p \in CredProfiles},
                CredEnvFiles, {FALSE})

NextCred == \E n \in ProfileNames : ForProfile(n)

SpecCred == InitCred /\ [][NextCred]_vars

\* The latest call is for_profile on the profile the configuration holds.
ProfileResolved == last.op = "for_profile" /\ last.arg.profile \in DOMAIN config.profiles

PasswordFlags == {"--password-file", "--password-command"}

HasFlag(args, flag) == \E i \in 1..Len(args) : args[i] = flag

HasPair(args, flag, value) ==
    \E i \in 1..(Len(args) - 1) : args[i] = flag /\ args[i + 1] = value

\* The variables the environment file contributes: none when the profile names
\* no file.
FileVars == IF IsSome(TestProfile.environment_file) THEN envfile.vars ELSE EmptyMap

\* C3: of the eight shapes of password / password_file / password_command, the
\* password resolves exactly when one source is set, and then the template
\* carries that source (RESTIC_PASSWORD in the environment, or the
\* --password-file or --password-command pair); two or three set sources fail
\* with ConflictingPasswordSource and none with MissingPasswordSource.
C3_ExactlyOnePasswordSource ==
    ProfileResolved =>
        LET n == PasswordSources(TestProfile)
            t == last.res.val
        IN  /\ (n = 0) => (~last.res.ok /\ last.res.err = "MissingPasswordSource")
            /\ (n > 1) => (~last.res.ok /\ last.res.err = "ConflictingPasswordSource")
            /\ (n = 1) =>
                  /\ last.res.err \notin {"MissingPasswordSource", "ConflictingPasswordSource"}
                  /\ (last.res.ok /\ IsSome(TestProfile.password)) =>
                        /\ "RESTIC_PASSWORD" \in DOMAIN t.shared_env
                        /\ ("RESTIC_PASSWORD" \notin DOMAIN TestProfile.environment \cup DOMAIN FileVars)
                              => t.shared_env["RESTIC_PASSWORD"] = Unwrap(TestProfile.password)
                        /\ \A f \in PasswordFlags : ~HasFlag(t.shared_args, f)
                  /\ (last.res.ok /\ IsSome(TestProfile.password_file)) =>
                        /\ HasPair(t.shared_args, "--password-file", Unwrap(TestProfile.password_file))
                        /\ ~HasFlag(t.shared_args, "--password-command")
                  /\ (last.res.ok /\ IsSome(TestProfile.password_command)) =>
                        /\ HasPair(t.shared_args, "--password-command",
                                   Unwrap(TestProfile.password_command))
                        /\ ~HasFlag(t.shared_args, "--password-file")

C3_Witness ==
    /\ ProfileResolved
    /\ last.res.ok
    /\ TestProfile.password = None
    /\ TestProfile.password_file = None
    /\ HasPair(last.res.val.shared_args, "--password-command", "pass rustic")

\* C7: the environment of a built template holds every key of
\* profile.environment and of the environment file, with the file's value for
\* a key of the file and the profile's value for a key of the profile alone.
C7_EnvironmentFileWins ==
    (ProfileResolved /\ last.res.ok) =>
        LET env == last.res.val.shared_env
            inline == TestProfile.environment
        IN  \A k \in DOMAIN inline \cup DOMAIN FileVars :
                /\ k \in DOMAIN env
                /\ env[k] = IF k \in DOMAIN FileVars THEN FileVars[k] ELSE inline[k]

C7_Witness ==
    /\ ProfileResolved
    /\ last.res.ok
    /\ TestProfile.environment = [k \in {"X"} |-> "1"]
    /\ FileVars = [k \in {"X", "Y"} |-> "2"]
    /\ last.res.val.shared_env["X"] = "2"
    /\ last.res.val.shared_env["Y"] = "2"

-----------------------------------------------------------------------------
(* The fileset specification: write_fileset on every shape of inheritance
   among the include fileset and two named filesets *)

FilesetNames == {"A", "B"}

\* The names an inherits list is drawn from: the named filesets and one name
\* that is no fileset.
InheritedNames == FilesetNames \cup {"missing"}

FilesetConfigs ==
    {Configuration(
        [FixtureProfile EXCEPT !.include = Fileset(ri, rp)],
        [n \in FilesetNames |->
            IF n = "A" THEN Fileset(ai, <<"a", "r1">>) ELSE Fileset(bi, <<"b1", "b2">>)]) :
        rp \in {<<>>, <<"r1", "r2">>},
        ri \in SeqsUpTo(InheritedNames, MaxInherits),
        ai \in SeqsUpTo(InheritedNames, MaxInherits),
        bi \in SeqsUpTo(InheritedNames, 1)}

InitFileset == InitWith(FilesetConfigs, {EnvFile("unreadable", EmptyMap)}, {FALSE})

NextFileset == ResolveFileset

SpecFileset == InitFileset /\ [][NextFileset]_vars

Names(fileset) == {fileset.inherits[i] : i \in 1..Len(fileset.inherits)}

RECURSIVE Closure(_)

\* The names reached from the names of S through the filesets that exist.
Closure(S) ==
    LET more == S \cup UNION {Names(config.filesets[n]) : n \in S \cap DOMAIN config.filesets}
    IN  IF more = S THEN S ELSE Closure(more)

Reach(fileset) == Closure(Names(fileset))

\* The fileset inherits, directly or not, a fileset that inherits itself.
Cyclic(fileset) ==
    \E n \in Reach(fileset) \cap DOMAIN config.filesets : n \in Reach(config.filesets[n])

AllExist(fileset) == Reach(fileset) \subseteq DOMAIN config.filesets

RECURSIVE Flatten(_)
RECURSIVE FlattenAll(_)

\* The depth-first pre-order flattening of an acyclic fileset whose names exist.
Flatten(fileset) == fileset.patterns \o FlattenAll(fileset.inherits)

FlattenAll(names) ==
    IF names = <<>> THEN <<>>
    ELSE Flatten(config.filesets[Head(names)]) \o FlattenAll(Tail(names))

Resolved == last.op = "write_fileset"

Written == Unwrap(last.include_file)

\* C4: resolution never outruns the stack, and resolving a fileset that
\* inherits itself, directly or not, fails with CyclicFileset.
C4_CycleDetected ==
    Resolved =>
        /\ last.res.err # "StackOverflow"
        /\ (Cyclic(TestProfile.include) /\ AllExist(TestProfile.include)) =>
              (~last.res.ok /\ last.res.err = "CyclicFileset")

\* C5: resolving an acyclic fileset that inherits, at any depth, a name that is
\* no fileset fails with UnknownFileset and has written nothing to the stream.
C5_UnknownWritesNothing ==
    (Resolved /\ ~Cyclic(TestProfile.include) /\ ~AllExist(TestProfile.include)) =>
        /\ ~last.res.ok
        /\ last.res.err = "UnknownFileset"
        /\ Written = <<>>

\* C6: resolving an acyclic fileset whose inherited names all exist writes its
\* own patterns in order, then the resolution of each inherited name in listed
\* order, once for every occurrence of the name.
C6_PreOrderFlattening ==
    (Resolved /\ ~Cyclic(TestProfile.include) /\ AllExist(TestProfile.include)) =>
        /\ last.res.ok
        /\ Written = Flatten(TestProfile.include)
        /\ (TestProfile.include.inherits = <<>>) => Written = TestProfile.include.patterns

C6_Witness ==
    /\ Resolved
    /\ last.res.ok
    /\ TestProfile.include.inherits = <<"A", "B">>
    /\ config.filesets["A"].inherits = <<"B", "B">>
    /\ Written = <<"r1", "r2", "a", "r1", "b1", "b2", "b1", "b2", "b1", "b2">>

-----------------------------------------------------------------------------
(* The retention specification: forget on every shape of the retention policy *)

\* The counts a keep_* field is drawn with.
KeepCounts == {0, 5}

OptionOf(S) == {None} \cup {Some(v) : v \in S}

RetentionPolicies ==
    {RetentionPolicy(l, h, d, w, m, y, within, tags) :
        l \in OptionOf(KeepCounts), h \in OptionOf(KeepCounts), d \in OptionOf(KeepCounts),
        w \in OptionOf(KeepCounts), m \in OptionOf(KeepCounts), y \in OptionOf(KeepCounts),
        within \in OptionOf({"1y3m10d2h"}),
        tags \in {<<>>, <<<<"a", "b">>, <<"c">>>>, <<<<>>>>}}

InitForget ==
    InitWith({Configuration([FixtureProfile EXCEPT !.retention = k], NoFilesets) :
                 k \in RetentionPolicies},
             {EnvFile("unreadable", EmptyMap)}, {TRUE})

NextForget ==
    \/ \E n \in ProfileNames : ForProfile(n)
    \/ \E p \in BOOLEAN : Forget(p)

SpecForget == InitForget /\ [][NextForget]_vars

OptionalFields ==
    {"keep_last", "keep_hourly", "keep_daily", "keep_weekly", "keep_monthly",
     "keep_yearly", "keep_within"}

\* The policy sets at least one field.
AnyFieldSet(policy) ==
    \/ \E f \in OptionalFields : Len(policy[f]) = 1
    \/ Len(policy.keep_tags) > 0

\* C2: forget, with or without prune, runs the forget command exactly when the
\* retention policy sets at least one field; when it sets none, is_empty holds,
\* nothing is run and forget returns success.
C2_ForgetIffPolicySet ==
    (last.op = "forget") =>
        LET policy == TestProfile.retention
        IN  /\ is_empty(policy) = ~AnyFieldSet(policy)
            /\ (last.spawned # <<>>) = AnyFieldSet(policy)
            /\ AnyFieldSet(policy) =>
                  /\ Len(last.spawned) = 1
                  /\ Subcommand(last.spawned[1].cmd) = "forget"
                  /\ HasFlag(last.spawned[1].cmd.args, "--prune") = last.arg.prune
            /\ ~AnyFieldSet(policy) => last.res = Ok(<<>>)

C2_Witness ==
    /\ last.op = "forget"
    /\ last.arg.prune
    /\ \A f \in OptionalFields : TestProfile.retention[f] = None
    /\ TestProfile.retention.keep_tags = <<<<>>>>
    /\ Len(last.spawned) = 1
    /\ last.spawned[1].exit = "failure"

-----------------------------------------------------------------------------
(* Claims about the command template, checked under Spec *)

LibraryOps == {"repository_exists", "init", "backup", "forget", "prune", "dump_snapshots"}

\* The arguments a command carries after the base arguments of the template t.
OwnArgs(t, cmd) == SubSeq(cmd.args, Len(t.shared_args) + 1, Len(cmd.args))

\* The flags an operation other than forget adds.
ForeignToForget ==
    {"--compact", "--last", "--files-from", "--exclude-file", "--exclude-caches",
     "--one-file-system", "--ignore-inode", "--json", "init", "backup", "prune", "snapshots"}

BackupOwnArgs ==
    <<"backup", "--files-from", "include_file", "--exclude-file", "exclude_file">>
    \o (IF TestProfile.exclude_caches THEN <<"--exclude-caches">> ELSE <<>>)
    \o (IF TestProfile.one_file_system THEN <<"--one-file-system">> ELSE <<>>)
    \o (IF TestProfile.ignore_inode THEN <<"--ignore-inode">> ELSE <<>>)

\* own holds the arguments of the operation the command belongs to and none of
\* another operation.
OwnArgsOk(p, own) ==
    /\ own # <<>>
    /\ IF IsProbe(p) THEN own = <<"snapshots", "--compact", "--last">>
       ELSE IF own[1] = "init" THEN own = <<"init">>
       ELSE IF own[1] = "prune" THEN own = <<"prune">>
       ELSE IF own[1] = "backup" THEN own = BackupOwnArgs
       ELSE IF own[1] = "snapshots" THEN own = <<"snapshots">> \o last.arg.extra_args
       ELSE /\ own[1] = "forget"
            /\ \A j \in 2..Len(own) : own[j] \notin ForeignToForget

\* C11: whatever operations were called on a Restic value, its base arguments
\* and base environment are those for_profile built, and every command an
\* operation runs has the working directory and environment of the template
\* and the base arguments followed by the arguments of that operation alone.
C11_TemplateNeverMutated ==
    /\ IsSome(restic) =>
          LET built == for_profile(config, Unwrap(restic).profile, envfile)
          IN  built.ok /\ Unwrap(restic) = built.val
    /\ (last.op \in LibraryOps) =>
          \A i \in 1..Len(last.spawned) :
              LET t == Unwrap(restic)
                  cmd == last.spawned[i].cmd
              IN  /\ cmd.env = t.shared_env
                  /\ cmd.current_dir = TestProfile.base_directory
                  /\ Len(cmd.args) > Len(t.shared_args)
                  /\ SubSeq(cmd.args, 1, Len(t.shared_args)) = t.shared_args
                  /\ OwnArgsOk(last.spawned[i], OwnArgs(t, cmd))

C11_Witness ==
    /\ last.op = "backup"
    /\ Len(last.spawned) = 3
    /\ Unwrap(restic).shared_args = <<"--repo", TestProfile.repository>>
    /\ TestProfile.exclude_caches
    /\ OwnArgs(Unwrap(restic), last.spawned[2].cmd) = <<"init">>
    /\ OwnArgs(Unwrap(restic), last.spawned[3].cmd) = BackupOwnArgs

-----------------------------------------------------------------------------
(* Claims about the password in the template, checked under SpecCred *)

Elements(seq) == {seq[i] : i \in 1..Len(seq)}

\* The environment the profile and its environment file ask for.
MergedEnvironment == InsertAll(TestProfile.environment, FileVars)

\* C12: in a built template an inline password is an environment variable and
\* no argument, and a password file or password command is a flag pair of the
\* base arguments and adds no entry to the environment.
C12_PasswordPlacement ==
    (ProfileResolved /\ last.res.ok) =>
        LET t == last.res.val
        IN  /\ IsSome(TestProfile.password) =>
                  /\ "RESTIC_PASSWORD" \in DOMAIN t.shared_env
                  /\ Unwrap(TestProfile.password) \notin Elements(t.shared_args)
                  /\ t.shared_args = <<"--repo", TestProfile.repository>>
            /\ IsSome(TestProfile.password_file) =>
                  /\ t.shared_args = <<"--password-file", Unwrap(TestProfile.password_file),
                                       "--repo", TestProfile.repository>>
                  /\ t.shared_env = MergedEnvironment
            /\ IsSome(TestProfile.password_command) =>
                  /\ t.shared_args = <<"--password-command", Unwrap(TestProfile.password_command),
                                       "--repo", TestProfile.repository>>
                  /\ t.shared_env = MergedEnvironment

C12_Witness ==
    /\ ProfileResolved
    /\ last.res.ok
    /\ IsSome(TestProfile.password_file)
    /\ HasPair(last.res.val.shared_args, "--password-file", "/secret")
    /\ last.res.val.shared_env = [k \in {"X"} |-> "1"]

\* C16: in a template built for a profile with an inline password,
\* RESTIC_PASSWORD is that password, whatever profile.environment and the
\* environment file hold.
C16_InlinePasswordKept ==
    (ProfileResolved /\ last.res.ok /\ IsSome(TestProfile.password)) =>
        /\ "RESTIC_PASSWORD" \in DOMAIN last.res.val.shared_env
        /\ last.res.val.shared_env["RESTIC_PASSWORD"] = Unwrap(TestProfile.password)

-----------------------------------------------------------------------------
(* Claims about the retention flags, checked under SpecForget *)

\* The count fields in the order of the flags, each with its flag.
CountFlags ==
    <<<<"keep_last", "--keep-last">>, <<"keep_hourly", "--keep-hourly">>,
      <<"keep_daily", "--keep-daily">>, <<"keep_weekly", "--keep-weekly">>,
      <<"keep_monthly", "--keep-monthly">>, <<"keep_yearly", "--keep-yearly">>>>

\* The decimal text of the counts the policies are drawn with.
Decimal(n) == CASE n = 0 -> "0" [] n = 5 -> "5"

\* The strings of a tag group of at most two tags, separated by a comma.
Joined(group) ==
    CASE Len(group) = 0 -> ""
      [] Len(group) = 1 -> group[1]
      [] Len(group) = 2 -> group[1] \o "," \o group[2]

RECURSIVE CountPairs(_, _)

\* The pairs of the count fields from the i-th on.
CountPairs(policy, i) ==
    IF i > Len(CountFlags) THEN <<>>
    ELSE (IF policy[CountFlags[i][1]] = None THEN <<>>
          ELSE <<CountFlags[i][2], Decimal(policy[CountFlags[i][1]][1])>>)
         \o CountPairs(policy, i + 1)

RECURSIVE TagPairs(_)

TagPairs(groups) ==
    IF groups = <<>> THEN <<>>
    ELSE <<"--keep-tag", Joined(Head(groups))>> \o TagPairs(Tail(groups))

ExpectedPolicyFlags(policy) ==
    CountPairs(policy, 1)
    \o (IF policy.keep_within = None THEN <<>> ELSE <<"--keep-within", policy.keep_within[1]>>)
    \o TagPairs(policy.keep_tags)

\* C13: the forget command carries, after "forget", one pair for each present
\* field among keep_last, keep_hourly, keep_daily, keep_weekly, keep_monthly,
\* keep_yearly and keep_within, in that order, then one --keep-tag pair for each
\* tag group in list order with the group's strings joined by ",", and nothing
\* else but the --prune toggle.
C13_PolicyFlagOrder ==
    (last.op = "forget" /\ last.spawned # <<>>) =>
        OwnArgs(Unwrap(restic), last.spawned[1].cmd) =
            <<"forget">> \o ExpectedPolicyFlags(TestProfile.retention)
                         \o (IF last.arg.prune THEN <<"--prune">> ELSE <<>>)

C13_Witness ==
    /\ last.op = "forget"
    /\ ~last.arg.prune
    /\ last.spawned # <<>>
    /\ OwnArgs(Unwrap(restic), last.spawned[1].cmd) =
          <<"forget", "--keep-last", "5", "--keep-tag", "a,b", "--keep-tag", "c">>

-----------------------------------------------------------------------------
(* Claims about backup and repository initialization, checked under Spec *)

\* The latest call is backup, or a run of the Backup command.
BackupRequested ==
    \/ last.op = "backup"
    \/ last.op = "run" /\ last.arg.name = "Backup" /\ ExpectedFailure(last.arg.profile) = ""

\* C14: a backup runs init at most once, and when its init command does not
\* exit with success the backup returns an error and runs no backup command.
C14_InitFailureEndsBackup ==
    BackupRequested =>
        /\ Cardinality(Positions(IsInit)) <= 1
        /\ \A i \in Positions(IsInit) :
              /\ TestProfile.auto_init
              /\ (last.spawned[i].exit # "success") =>
                    /\ ~last.res.ok
                    /\ Positions(IsBackup) = {}
                    /\ i = Len(last.spawned)
              /\ (last.spawned[i].exit = "failure") => last.res.err = "InitFailed"

C14_Witness ==
    /\ BackupRequested
    /\ ProbeReportedAbsent
    /\ Len(last.spawned) = 2
    /\ IsInit(last.spawned[2])
    /\ last.spawned[2].exit = "failure"
    /\ last.res.err = "InitFailed"

\* C15: a backup of a profile whose include or exclude fileset inherits a name
\* that is no fileset fails with UnknownFileset before any command is run: no
\* probe, no init.
C15_UnknownFilesetBeforeSpawn ==
    (BackupRequested
        /\ (~AllExist(TestProfile.include) \/ ~AllExist(TestProfile.exclude))) =>
        /\ ~last.res.ok
        /\ last.res.err = "UnknownFileset"
        /\ last.spawned = <<>>

====
